---- MODULE Spec2Model ----
(***************************************************************************)
(* State-machine model of netdev's DeviceStream                            *)
(* (src/netdev/core/device_stream.py): one DeviceStream object driven by   *)
(* one sequential caller over an IOConnection whose connect / send / read  *)
(* / disconnect outcomes are chosen by the environment (Spec).  Three      *)
(* further groups of specifications share its operators: SpecStatic runs   *)
(* the static methods on their own; SpecOne, SpecShared and SpecTwo run    *)
(* coroutines that call connect and send_commands on one or two objects    *)
(* and interleave at the awaits of the transport calls.                    *)
(*                                                                         *)
(* Text is a sequence of one-character strings.  A regular expression is   *)
(* kept as a syntax tree (see Alt, Anch, NotStr) and matched by Search,    *)
(* which follows the semantics of Python's re.search for the expressions   *)
(* the class builds.                                                       *)
(***************************************************************************)
EXTENDS Integers, Sequences, FiniteSets, TLC

LF == "\n"
CR == "\r"
BS == "^H"

(***************************************************************************)
(* Bounds of the model.                                                    *)
(***************************************************************************)
MaxCalls == 2   \* public API calls made on one DeviceStream
MaxBuf   == 3   \* characters one _read_until call accumulates

(***************************************************************************)
(* Python values.  A str used as a pattern is a syntax tree; a str used as *)
(* a command or as device output is a sequence of characters; every other  *)
(* argument value carries a type tag t and a payload v.                    *)
(***************************************************************************)

\* the pattern a1|a2|...|an of escaped literals (the empty sequence is "")
Alt(alts) == [k |-> "alt", alts |-> alts, sub |-> <<>>]

\* rf"({p}).*$.*({p})$"
Anch(p) == [k |-> "anch", alts |-> <<>>, sub |-> <<p>>]

\* a value that is not a str where a pattern is expected (an int)
NotStr(d) == [k |-> "int", alts |-> << <<d>> >>, sub |-> <<>>]

EmptyPattern == Alt(<<>>)

PyNone == [t |-> "none", v |-> <<>>]
PyStr(x) == [t |-> "str", v |-> <<x>>]
PyList(xs) == [t |-> "list", v |-> xs]
PyInt(d) == [t |-> "int", v |-> <<NotStr(d)>>]
PyTuple(xs) == [t |-> "tuple", v |-> xs]

\* bool(x) of Python, for a value given as patterns
Truthy(x) ==
  CASE x.t = "none" -> FALSE
    [] x.t = "str" -> x.v[1] # EmptyPattern
    [] x.t = "int" -> x.v[1].alts # << <<"0">> >>
    [] OTHER -> x.v # <<>>

(***************************************************************************)
(* re.search                                                               *)
(***************************************************************************)

\* the literal lit stands in s right after the first i characters
IsLitAt(lit, s, i) ==
  /\ i + Len(lit) <= Len(s)
  /\ SubSeq(s, i + 1, i + Len(lit)) = lit

\* "$" matches after the first b characters of s
DollarAt(s, b, fl) ==
  \/ b = Len(s)
  \/ b = Len(s) - 1 /\ s[Len(s)] = LF
  \/ "M" \in fl /\ b < Len(s) /\ s[b + 1] = LF

\* ".*" can match exactly the characters a+1 .. b of s
DotStar(s, a, b, fl) ==
  /\ a <= b
  /\ "S" \in fl \/ \A x \in (a + 1)..b : s[x] # LF

\* the positions j such that pattern p matches s[i+1 .. j]
RECURSIVE Ends(_, _, _, _)
Ends(p, s, i, fl) ==
  IF p.k = "alt"
  THEN IF p.alts = <<>>
       THEN {i}
       ELSE {i + Len(p.alts[n]) : n \in {m \in DOMAIN p.alts : IsLitAt(p.alts[m], s, i)}}
  ELSE LET q == p.sub[1]
       IN {j \in i..Len(s) :
             /\ DollarAt(s, j, fl)
             /\ \E a \in Ends(q, s, i, fl) :
                  \E b \in a..j :
                    /\ DotStar(s, a, b, fl)
                    /\ DollarAt(s, b, fl)
                    /\ \E c \in b..j :
                         /\ DotStar(s, b, c, fl)
                         /\ j \in Ends(q, s, c, fl)}

\* re.search(p, s, flags=fl) finds a match (p a str)
Search(p, s, fl) == \E i \in 0..Len(s) : Ends(p, s, i, fl) # {}

(***************************************************************************)
(* Static helpers of DeviceStream                                          *)
(***************************************************************************)

RECURSIVE RStripLF(_)
RStripLF(s) ==
  IF s # <<>> /\ s[Len(s)] = LF THEN RStripLF(SubSeq(s, 1, Len(s) - 1)) ELSE s

\* a newline appended to the command as it is
normalize_cmd_append(cmd) == cmd \o <<LF>>

normalize_cmd(cmd) == RStripLF(cmd) \o <<LF>>

\* s.split("\n")
RECURSIVE Split(_)
Split(s) ==
  IF \A i \in DOMAIN s : s[i] # LF
  THEN <<s>>
  ELSE LET i == CHOOSE x \in DOMAIN s : s[x] = LF /\ \A y \in 1..(x - 1) : s[y] # LF
       IN <<SubSeq(s, 1, i - 1)>> \o Split(SubSeq(s, i + 1, Len(s)))

\* "\n".join(lines)
RECURSIVE Join(_)
Join(lines) ==
  IF lines = <<>> THEN <<>>
  ELSE IF Len(lines) = 1 THEN lines[1]
  ELSE lines[1] \o <<LF>> \o Join(Tail(lines))

\* a strip that rejoins every line
strip_prompt_keep_all(output) == Join(Split(output))

strip_prompt(output) ==
  LET output_lines == Split(output)
  IN Join(SubSeq(output_lines, 1, Len(output_lines) - 1))

RECURSIVE Remove(_, _)
Remove(s, ch) ==
  IF s = <<>> THEN <<>>
  ELSE IF Head(s) = ch THEN Remove(Tail(s), ch)
  ELSE <<Head(s)>> \o Remove(Tail(s), ch)

strip_command(cmd, output) ==
  IF \E i \in DOMAIN output : output[i] = BS
  THEN Join(Tail(Split(Remove(output, BS))))
  ELSE SubSeq(output, Len(cmd) + 1, Len(output))

RECURSIVE normalize_linefeeds(_)
normalize_linefeeds(s) ==
  IF s = <<>> THEN <<>>
  ELSE IF Len(s) >= 3 /\ SubSeq(s, 1, 3) = <<CR, CR, LF>>
       THEN <<LF>> \o normalize_linefeeds(SubSeq(s, 4, Len(s)))
  ELSE IF Len(s) >= 2 /\ SubSeq(s, 1, 2) \in {<<CR, LF>>, <<LF, CR>>}
       THEN <<LF>> \o normalize_linefeeds(SubSeq(s, 3, Len(s)))
  ELSE <<Head(s)>> \o normalize_linefeeds(Tail(s))

(***************************************************************************)
(* Pieces of __init__, _find_prompt, send_commands and _read_until         *)
(***************************************************************************)

\* a constructor that checks the transport only
init_error_io_only(io, func) == IF ~io THEN "ValueError" ELSE "none"

\* __init__: the error its two checks raise, "none" when both pass
init_error(io, func) ==
  IF ~io THEN "ValueError"
  ELSE IF func = "none" THEN "ValueError"
  ELSE "none"

\* __init__: r"|".join(map(re.escape, delimeter_list))
compile_pattern(delims) ==
  IF \A i \in DOMAIN delims : delims[i] = <<>> THEN EmptyPattern ELSE Alt(delims)

\* _find_prompt reading until the pattern it had, unchanged
anchored_pattern_plain(p) == p

\* _find_prompt: rf"({p}).*$.*({p})$"
anchored_pattern(p) == Anch(p)

\* the last line of raw that is not empty (<<>> when there is none)
LastLine(raw) ==
  LET ls == Split(raw)
      ne == {i \in DOMAIN ls : ls[i] # <<>>}
  IN IF ne = {} THEN <<>> ELSE ls[CHOOSE i \in ne : \A j \in ne : j <= i]

\* the caller's set_prompt_func: two stubs, one escaping the prompt line it
\* finds in the raw exchange, one returning a fixed pattern
set_prompt(func, raw) ==
  IF func = "last_line" THEN compile_pattern(<<LastLine(raw)>>)
  ELSE Alt(<< <<"a", "#">> >>)

\* send_commands: the pattern list, or the error raised while building it
pattern_list_of(patterns, cur) ==
  IF ~Truthy(patterns) THEN [err |-> "none", list |-> <<cur>>]
  ELSE IF patterns.t = "str" THEN [err |-> "none", list |-> <<patterns.v[1], cur>>]
  ELSE IF patterns.t = "list" THEN [err |-> "none", list |-> patterns.v \o <<cur>>]
  ELSE [err |-> "ValueError", list |-> <<>>]

\* send_commands: the commands "for cmd in cmd_list" iterates, or its error
cmd_list_of(cmds) ==
  IF cmds.t = "str" THEN [err |-> "none", list |-> <<cmds.v[1]>>]
  ELSE IF cmds.t = "list" THEN [err |-> "none", list |-> cmds.v]
  ELSE [err |-> "TypeError", list |-> <<>>]

\* a loop that tests the first pattern of the list only
read_until_test_first_only(pattern_list, out, fl) ==
  IF pattern_list = <<>> THEN "continue"
  ELSE IF Head(pattern_list).k = "int" THEN "TypeError"
  ELSE IF Search(Head(pattern_list), out, fl) THEN "return"
  ELSE "continue"

\* _read_until: the outcome of the for loop over pattern_list on one buffer
RECURSIVE read_until_test(_, _, _)
read_until_test(pattern_list, out, fl) ==
  IF pattern_list = <<>> THEN "continue"
  ELSE IF Head(pattern_list).k = "int" THEN "TypeError"
  ELSE IF Search(Head(pattern_list), out, fl) THEN "return"
  ELSE read_until_test(Tail(pattern_list), out, fl)

\* send_commands: the two strip steps applied to what _read_until returned
sanitize(cmd, buf, sc, sp) ==
  LET b1 == IF sc THEN strip_command(cmd, buf) ELSE buf
  IN IF sp THEN strip_prompt(b1) ELSE b1

\* a loop that steps over every second command
next_cmd_skipping(cmd_list, i) ==
  IF i = 0 THEN (IF cmd_list = <<>> THEN 0 ELSE 1)
  ELSE IF i + 1 < Len(cmd_list) THEN i + 2 ELSE 0

\* send_commands: the command the for loop takes after command i (0: none)
next_cmd(cmd_list, i) == IF i < Len(cmd_list) THEN i + 1 ELSE 0

\* a connect that returns what _session_preparation returned alone
connect_return_prepared(raw_prompt, prepared) == prepared

\* connect: buf = raw_prompt; buf += what _session_preparation returned
connect_return(raw_prompt, prepared) == raw_prompt \o prepared

\* what the public method returns when the send_commands called at stage stg
\* returns output: connect's own return after "prep", output itself for "api"
return_value(stg, cb, output) ==
  IF stg = "prep" THEN connect_return(cb, output) ELSE output

\* a _find_prompt that drops the value set_prompt_func returned
stored_pattern_kept(cur, returned) == cur

\* _find_prompt, line 64: what self._prompt_pattern holds after the assignment,
\* given the anchored pattern it held and the value set_prompt_func returned
stored_pattern(cur, returned) == returned

(***************************************************************************)
(* Inputs                                                                  *)
(***************************************************************************)
DelimLists == { <<>>, << <<"#">> >> }
PromptFuncs == {"none", "last_line", "fixed"}
NopageCmds == {PyNone, PyStr(<<"a">>)}
Chunks == { <<"a">>, <<"#">>, <<LF>>, <<"#", LF>>, <<CR, LF>> }
Commands == { [t |-> "str", v |-> << <<"a">> >>],
              [t |-> "list", v |-> <<>>],
              [t |-> "list", v |-> << <<"a">>, <<"a", LF>> >>] }
PatternArgs == { PyNone,
                 PyStr(EmptyPattern),
                 PyStr(Alt(<< <<"a">> >>)),
                 PyList(<<Alt(<< <<LF>> >>)>>),
                 PyList(<<NotStr("5")>>),
                 PyInt("0"),
                 PyInt("5"),
                 PyTuple(<<Alt(<< <<"a">> >>)>>) }
\* strip_command, strip_prompt and re_flags of a call
Options == { <<TRUE, TRUE, {}>>, <<FALSE, FALSE, {"M", "S"}>>, <<TRUE, FALSE, {}>> }

(***************************************************************************)
(* State                                                                   *)
(***************************************************************************)
VARIABLES
  pc,               \* "new", "no_object", "idle", or the transport call awaited
  set_prompt_func,  \* constructor argument
  nopage_cmd,       \* constructor argument
  delimeter_list,   \* constructor argument
  prompt_pattern,   \* self._prompt_pattern
  api,              \* the public method running (or the last one run)
  frame,            \* locals of the running send_commands / _read_until / connect
  ret,              \* outcome of the public method: status and value
  tlog,             \* transport calls of the public method, in order
  calls,            \* public methods called so far
  patterns_arg,     \* patterns argument of the running public send_commands
  pattern_at_call,  \* prompt_pattern when the public method was called
  disconnected,     \* disconnect() has been called
  last,             \* the last command exchange a _read_until completed
  n_anchor,         \* executions of line 60
  n_learn,          \* executions of line 64
  learned,          \* what set_prompt_func last returned and for which raw text;
                    \* current: line 64 made the last assignment to the pattern
  init_args,        \* the arguments the constructor was called with
  fn,               \* a static method called on its own: name, argument, results
  streams,          \* several DeviceStream objects: the attributes of each
  tasks,            \* coroutines running public methods of those objects
  wire,             \* per transport: chunks the device has emitted, not yet read
  oplog             \* per transport: the operations it has seen, in order

\* the one DeviceStream of Spec and the public method running on it
session == <<pc, set_prompt_func, nopage_cmd, delimeter_list, prompt_pattern, api,
             frame, ret, tlog, calls, patterns_arg, pattern_at_call, disconnected,
             last, n_anchor, n_learn, learned, init_args>>

\* the objects and coroutines of SpecOne, SpecShared and SpecTwo
concurrent == <<streams, tasks, wire, oplog>>

vars == <<session, fn, concurrent>>

config == <<set_prompt_func, nopage_cmd, delimeter_list, init_args>>

NoFrame == [stage |-> "none", cmd_list |-> <<>>, idx |-> 0, pattern_list |-> <<>>,
            re_flags |-> {}, strip_command |-> FALSE, strip_prompt |-> FALSE,
            output |-> <<>>, rbuf |-> <<>>, cbuf |-> <<>>]
NoLast == [cmd |-> <<>>, resp |-> <<>>, buf |-> <<>>, k |-> 0, stage |-> "none"]
NoLearned == [set |-> FALSE, current |-> FALSE, raw |-> <<>>, pattern |-> EmptyPattern]
Ret(status, value) == [status |-> status, value |-> value]
Pending == Ret("pending", <<>>)
Op(op, k, data, ok) == [op |-> op, k |-> k, data |-> data, ok |-> ok]
NoFn == [name |-> "none", arg |-> <<>>, applied |-> 0, res |-> <<>>, again |-> <<>>]

Init ==
  /\ pc = "new"
  /\ set_prompt_func = "none"
  /\ nopage_cmd = PyNone
  /\ delimeter_list = <<>>
  /\ prompt_pattern = EmptyPattern
  /\ api = "none"
  /\ frame = NoFrame
  /\ ret = Ret("none", <<>>)
  /\ tlog = <<>>
  /\ calls = 0
  /\ patterns_arg = PyNone
  /\ pattern_at_call = EmptyPattern
  /\ disconnected = FALSE
  /\ last = NoLast
  /\ n_anchor = 0
  /\ n_learn = 0
  /\ learned = NoLearned
  /\ init_args = [io |-> FALSE, delims |-> <<>>, func |-> "none", nopage |-> PyNone]
  /\ fn = NoFn
  /\ streams = <<>>
  /\ tasks = <<>>
  /\ wire = <<>>
  /\ oplog = <<>>

(***************************************************************************)
(* send_commands up to its first await: lines 84-102.  stg names the       *)
(* caller ("find_prompt", "prep" or "api"), cur is self._prompt_pattern    *)
(* and cb what connect has collected in buf.  The result gives the next    *)
(* pc, the outcome of the public method if it ends here, and the locals.   *)
(***************************************************************************)
enter_send_commands(stg, cmds, pats, sc, sp, fl, cur, cb) ==
  LET pl == pattern_list_of(pats, cur)
      cl == cmd_list_of(cmds)
      fr == [stage |-> stg, cmd_list |-> cl.list, idx |-> next_cmd(cl.list, 0),
             pattern_list |-> pl.list, re_flags |-> fl,
             strip_command |-> sc, strip_prompt |-> sp,
             output |-> <<>>, rbuf |-> <<>>, cbuf |-> cb]
  IN IF pl.err # "none"
     THEN [pc |-> "idle", ret |-> Ret(pl.err, <<>>), frame |-> [NoFrame EXCEPT !.stage = stg]]
     ELSE IF cl.err # "none"
     THEN [pc |-> "idle", ret |-> Ret(cl.err, <<>>), frame |-> fr]
     ELSE IF fr.idx = 0
     THEN [pc |-> "idle", ret |-> Ret("ok", return_value(stg, cb, <<>>)), frame |-> fr]
     ELSE [pc |-> "send", ret |-> Pending, frame |-> fr]

(***************************************************************************)
(* Actions                                                                 *)
(***************************************************************************)

\* DeviceStream(io_connection, delimeter_list, set_prompt_func, nopage_cmd)
Construct(io, delims, func, nopage) ==
  /\ pc = "new"
  /\ IF init_error(io, func) # "none"
     THEN /\ pc' = "no_object"
          /\ ret' = Ret(init_error(io, func), <<>>)
          /\ UNCHANGED <<set_prompt_func, nopage_cmd, delimeter_list, prompt_pattern>>
     ELSE /\ pc' = "idle"
          /\ ret' = Ret("ok", <<>>)
          /\ set_prompt_func' = func
          /\ nopage_cmd' = nopage
          /\ delimeter_list' = delims
          /\ prompt_pattern' = compile_pattern(delims)
  /\ api' = "init"
  /\ init_args' = [io |-> io, delims |-> delims, func |-> func, nopage |-> nopage]
  /\ UNCHANGED <<frame, tlog, calls, patterns_arg, pattern_at_call, disconnected,
                 last, n_anchor, n_learn, learned>>
  /\ UNCHANGED <<fn, concurrent>>

\* a public method is called: what every call resets
BeginCall(name) ==
  /\ pc = "idle"
  /\ calls < MaxCalls
  /\ calls' = calls + 1
  /\ api' = name
  /\ tlog' = <<>>
  /\ last' = NoLast
  /\ pattern_at_call' = prompt_pattern
  /\ UNCHANGED <<config, fn, concurrent>>

\* connect() up to await self._io_connection.connect()
CallConnect ==
  /\ BeginCall("connect")
  /\ pc' = "io_connect"
  /\ frame' = NoFrame
  /\ ret' = Pending
  /\ patterns_arg' = PyNone
  /\ UNCHANGED <<prompt_pattern, disconnected, n_anchor, n_learn, learned>>

\* the transport's connect ends; on success _find_prompt runs up to its send
IoConnect(ok) ==
  /\ pc = "io_connect"
  /\ tlog' = Append(tlog, Op("connect", 0, <<>>, ok))
  /\ IF ok
     THEN LET p == prompt_pattern
              r == enter_send_commands("find_prompt", PyStr(<<LF>>), PyNone, FALSE,
                                       FALSE, {"M", "S"}, anchored_pattern(p), <<>>)
          IN /\ prompt_pattern' = anchored_pattern(p)
             /\ n_anchor' = n_anchor + 1
             /\ learned' = [learned EXCEPT !.current = FALSE]
             /\ pc' = r.pc
             /\ ret' = r.ret
             /\ frame' = r.frame
     ELSE /\ pc' = "idle"
          /\ ret' = Ret("TransportError", <<>>)
          /\ UNCHANGED <<prompt_pattern, n_anchor, frame, learned>>
  /\ UNCHANGED <<config, api, calls, patterns_arg, pattern_at_call, disconnected,
                 last, n_learn, fn, concurrent>>

\* send_commands(cmds, strip_command=sc, strip_prompt=sp, patterns=pats, re_flags=fl)
CallSendCommands(cmds, pats, sc, sp, fl) ==
  /\ BeginCall("send_commands")
  /\ LET r == enter_send_commands("api", cmds, pats, sc, sp, fl, prompt_pattern, <<>>)
     IN /\ pc' = r.pc
        /\ ret' = r.ret
        /\ frame' = r.frame
  /\ patterns_arg' = pats
  /\ UNCHANGED <<prompt_pattern, disconnected, n_anchor, n_learn, learned>>

\* _send: the transport's send of the current command ends
IoSend(ok) ==
  /\ pc = "send"
  /\ LET cmd == frame.cmd_list[frame.idx]
     IN tlog' = Append(tlog, Op("send", frame.idx, normalize_cmd(cmd), ok))
  /\ IF ok
     THEN /\ pc' = "read"
          /\ frame' = [frame EXCEPT !.rbuf = <<>>]
          /\ ret' = ret
     ELSE /\ pc' = "idle"
          /\ frame' = frame
          /\ ret' = Ret("TransportError", <<>>)
  /\ UNCHANGED <<config, prompt_pattern, api, calls, patterns_arg, pattern_at_call,
                 disconnected, last, n_anchor, n_learn, learned, fn, concurrent>>

\* _read_until: the transport's read raises
IoReadFail ==
  /\ pc = "read"
  /\ tlog' = Append(tlog, Op("read", frame.idx, <<>>, FALSE))
  /\ pc' = "idle"
  /\ frame' = frame
  /\ ret' = Ret("TransportError", <<>>)
  /\ UNCHANGED <<config, prompt_pattern, api, calls, patterns_arg, pattern_at_call,
                 disconnected, last, n_anchor, n_learn, learned, fn, concurrent>>

\* _read_until: the transport's read returns chunk; the code runs on to the
\* next await, or to the end of the public method
IoRead(chunk) ==
  /\ pc = "read"
  /\ Len(frame.rbuf) + Len(chunk) <= MaxBuf
  /\ tlog' = Append(tlog, Op("read", frame.idx, <<>>, TRUE))
  /\ LET out == frame.rbuf \o chunk
         test == read_until_test(frame.pattern_list, out, frame.re_flags)
         cmd == frame.cmd_list[frame.idx]
         buf == sanitize(cmd, normalize_linefeeds(out), frame.strip_command,
                         frame.strip_prompt)
         output == frame.output \o buf
         nxt == next_cmd(frame.cmd_list, frame.idx)
         done == [frame EXCEPT !.output = output, !.rbuf = out]
         exch == [cmd |-> cmd, resp |-> out, buf |-> buf, k |-> frame.idx,
                  stage |-> frame.stage]
     IN CASE test = "continue" ->
               /\ frame' = [frame EXCEPT !.rbuf = out]
               /\ UNCHANGED <<pc, ret, prompt_pattern, last, n_learn, learned>>
          [] test = "TypeError" ->
               /\ pc' = "idle"
               /\ frame' = [frame EXCEPT !.rbuf = out]
               /\ ret' = Ret("TypeError", <<>>)
               /\ UNCHANGED <<prompt_pattern, last, n_learn, learned>>
          [] test = "return" /\ nxt # 0 ->
               /\ pc' = "send"
               /\ frame' = [done EXCEPT !.idx = nxt]
               /\ last' = exch
               /\ UNCHANGED <<ret, prompt_pattern, n_learn, learned>>
          [] test = "return" /\ nxt = 0 /\ frame.stage # "find_prompt" ->
               /\ pc' = "idle"
               /\ frame' = done
               /\ ret' = Ret("ok", return_value(frame.stage, frame.cbuf, output))
               /\ last' = exch
               /\ UNCHANGED <<prompt_pattern, n_learn, learned>>
          [] test = "return" /\ nxt = 0 /\ frame.stage = "find_prompt" ->
               LET raw_prompt == output
                   returned == set_prompt(set_prompt_func, raw_prompt)
                   np == stored_pattern(prompt_pattern, returned)
                   r == enter_send_commands("prep", nopage_cmd, PyNone, TRUE, TRUE,
                                            {}, np, raw_prompt)
               IN /\ prompt_pattern' = np
                  /\ n_learn' = n_learn + 1
                  /\ learned' = [set |-> TRUE, current |-> TRUE, raw |-> raw_prompt,
                                  pattern |-> returned]
                  /\ last' = exch
                  /\ pc' = r.pc
                  /\ ret' = r.ret
                  /\ frame' = r.frame
  /\ UNCHANGED <<config, api, calls, patterns_arg, pattern_at_call, disconnected,
                 n_anchor, fn, concurrent>>

\* disconnect() up to await self._io_connection.disconnect()
CallDisconnect ==
  /\ BeginCall("disconnect")
  /\ pc' = "io_disconnect"
  /\ frame' = NoFrame
  /\ ret' = Pending
  /\ disconnected' = TRUE
  /\ patterns_arg' = PyNone
  /\ UNCHANGED <<prompt_pattern, n_anchor, n_learn, learned>>

\* the transport's disconnect ends
IoDisconnect(ok) ==
  /\ pc = "io_disconnect"
  /\ tlog' = Append(tlog, Op("disconnect", 0, <<>>, ok))
  /\ pc' = "idle"
  /\ ret' = IF ok THEN Ret("ok", <<>>) ELSE Ret("TransportError", <<>>)
  /\ UNCHANGED <<config, prompt_pattern, api, frame, calls, patterns_arg,
                 pattern_at_call, disconnected, last, n_anchor, n_learn, learned,
                 fn, concurrent>>

Next ==
  \/ \E io \in BOOLEAN, delims \in DelimLists, func \in PromptFuncs, nopage \in NopageCmds :
       Construct(io, delims, func, nopage)
  \/ CallConnect
  \/ \E ok \in BOOLEAN : IoConnect(ok)
  \/ \E cmds \in Commands, pats \in PatternArgs, opt \in Options :
       CallSendCommands(cmds, pats, opt[1], opt[2], opt[3])
  \/ \E ok \in BOOLEAN : IoSend(ok)
  \/ \E chunk \in Chunks : IoRead(chunk)
  \/ IoReadFail
  \/ CallDisconnect
  \/ \E ok \in BOOLEAN : IoDisconnect(ok)

Spec == Init /\ [][Next]_vars

(***************************************************************************)
(* The static methods on their own: _normalize_cmd as _send applies it and *)
(* _normalize_linefeeds, each on every text of up to MaxText characters    *)
(* and then once more on its own result.                                   *)
(***************************************************************************)
MaxText == 4   \* characters of a text handed to a static method
TextChars == {"a", LF, CR}
Texts == UNION { [1..n -> TextChars] : n \in 0..MaxText }

\* the DeviceStream of Spec is not constructed
NoSession ==
  /\ pc = "new"
  /\ set_prompt_func = "none"
  /\ nopage_cmd = PyNone
  /\ delimeter_list = <<>>
  /\ prompt_pattern = EmptyPattern
  /\ api = "none"
  /\ frame = NoFrame
  /\ ret = Ret("none", <<>>)
  /\ tlog = <<>>
  /\ calls = 0
  /\ patterns_arg = PyNone
  /\ pattern_at_call = EmptyPattern
  /\ disconnected = FALSE
  /\ last = NoLast
  /\ n_anchor = 0
  /\ n_learn = 0
  /\ learned = NoLearned
  /\ init_args = [io |-> FALSE, delims |-> <<>>, func |-> "none", nopage |-> PyNone]

InitStatic ==
  /\ NoSession
  /\ fn \in {[NoFn EXCEPT !.arg = s] : s \in Texts}
  /\ streams = <<>>
  /\ tasks = <<>>
  /\ wire = <<>>
  /\ oplog = <<>>

\* _normalize_linefeeds(output)
StaticNormalizeLinefeeds ==
  /\ fn.name = "none"
  /\ fn' = [fn EXCEPT !.name = "_normalize_linefeeds", !.applied = 1,
                      !.res = normalize_linefeeds(fn.arg)]
  /\ UNCHANGED <<session, concurrent>>

\* _normalize_linefeeds on what it returned
StaticNormalizeLinefeedsAgain ==
  /\ fn.name = "_normalize_linefeeds"
  /\ fn.applied = 1
  /\ fn' = [fn EXCEPT !.applied = 2, !.again = normalize_linefeeds(fn.res)]
  /\ UNCHANGED <<session, concurrent>>

\* _send(cmd): the payload it hands to self._io_connection.send
StaticSend ==
  /\ fn.name = "none"
  /\ fn' = [fn EXCEPT !.name = "_send", !.applied = 1, !.res = normalize_cmd(fn.arg)]
  /\ UNCHANGED <<session, concurrent>>

\* _send of the payload of an earlier _send
StaticSendAgain ==
  /\ fn.name = "_send"
  /\ fn.applied = 1
  /\ fn' = [fn EXCEPT !.applied = 2, !.again = normalize_cmd(fn.res)]
  /\ UNCHANGED <<session, concurrent>>

NextStatic ==
  \/ StaticNormalizeLinefeeds
  \/ StaticNormalizeLinefeedsAgain
  \/ StaticSend
  \/ StaticSendAgain

SpecStatic == InitStatic /\ [][NextStatic]_vars

(***************************************************************************)
(* Several coroutines and several DeviceStream objects.  A task is a       *)
(* coroutine that calls public methods of one object; the steps of the     *)
(* tasks interleave at the awaits of the transport calls.  Each object has *)
(* its own transport, whose device answers a command with chunks that      *)
(* wait on the wire until a read takes them.  The transports do not fail.  *)
(***************************************************************************)
MaxTaskCalls == 1   \* public methods one task calls

\* what a device emits for one command it receives, in chunks
Replies == { << <<"a">>, <<"#">> >>,
             << <<"#", LF>>, <<"#">> >>,
             << <<"a">> >> }
TaskCommands == { PyStr(<<"a">>), PyList(<< <<"a">>, <<"a", LF>> >>) }
\* strip_command, strip_prompt and re_flags of a task's send_commands
TaskOptions == { <<TRUE, TRUE, {}>>, <<FALSE, FALSE, {}>> }

\* DeviceStream(io, ["#"], f, "a") for the two callbacks
StreamConfigs ==
  { [prompt_pattern |-> compile_pattern(<< <<"#">> >>), set_prompt_func |-> f,
     nopage_cmd |-> PyStr(<<"a">>)] : f \in {"last_line", "fixed"} }

NoTask(s) == [pc |-> "idle", api |-> "none", on |-> s, calls |-> 0, frame |-> NoFrame,
              ret |-> Ret("none", <<>>), seen |-> <<>>]

\* the chunks of reply, marked with the task whose command they answer
Emitted(reply, t) == [i \in DOMAIN reply |-> [c |-> reply[i], for |-> t]]

\* the pattern kept in an attribute of the class, shared by all objects
store_pattern_class_wide(ss, s, v) == [x \in DOMAIN ss |-> [ss[x] EXCEPT !.prompt_pattern = v]]

\* self._prompt_pattern = v on object s: an attribute of that instance
store_pattern(ss, s, v) == [ss EXCEPT ![s].prompt_pattern = v]

\* a read that picks the first chunk answering the reader's own command
take_own(w, t) ==
  LET own == {i \in DOMAIN w : w[i].for = t}
      i == IF own = {} THEN 1 ELSE CHOOSE j \in own : \A k \in own : j <= k
  IN [chunk |-> w[i], rest |-> SubSeq(w, 1, i - 1) \o SubSeq(w, i + 1, Len(w))]

\* buf = await self._io_connection.read(): the next chunk on the wire,
\* whatever command it answers
take(w, t) == [chunk |-> Head(w), rest |-> Tail(w)]

\* a loop that keeps the last chunk only
accumulate_last(output, buf) == buf

\* _read_until: output += buf
accumulate(output, buf) == output \o buf

\* one task on one object
InitOne ==
  /\ NoSession
  /\ fn = NoFn
  /\ streams \in [{1} -> StreamConfigs]
  /\ tasks = [t \in {1} |-> NoTask(1)]
  /\ wire = [s \in {1} |-> <<>>]
  /\ oplog = [s \in {1} |-> <<>>]

\* two tasks on one object
InitShared ==
  /\ NoSession
  /\ fn = NoFn
  /\ streams \in [{1} -> StreamConfigs]
  /\ tasks = [t \in {1, 2} |-> NoTask(1)]
  /\ wire = [s \in {1} |-> <<>>]
  /\ oplog = [s \in {1} |-> <<>>]

\* two objects on two transports, one task on each
InitTwo ==
  /\ NoSession
  /\ fn = NoFn
  /\ streams \in [{1, 2} -> StreamConfigs]
  /\ tasks = [t \in {1, 2} |-> NoTask(t)]
  /\ wire = [s \in {1, 2} |-> <<>>]
  /\ oplog = [s \in {1, 2} |-> <<>>]

\* task t calls connect(), up to await self._io_connection.connect()
TaskCallConnect(t) ==
  /\ tasks[t].pc = "idle"
  /\ tasks[t].calls < MaxTaskCalls
  /\ tasks' = [tasks EXCEPT ![t].pc = "io_connect", ![t].api = "connect",
                            ![t].calls = @ + 1, ![t].frame = NoFrame,
                            ![t].ret = Pending, ![t].seen = <<>>]
  /\ UNCHANGED <<streams, wire, oplog, session, fn>>

\* the transport's connect returns to task t; _find_prompt runs up to its send
TaskIoConnect(t) ==
  /\ tasks[t].pc = "io_connect"
  /\ LET s == tasks[t].on
         p == streams[s].prompt_pattern
         r == enter_send_commands("find_prompt", PyStr(<<LF>>), PyNone, FALSE, FALSE,
                                  {"M", "S"}, anchored_pattern(p), <<>>)
     IN /\ streams' = store_pattern(streams, s, anchored_pattern(p))
        /\ oplog' = [oplog EXCEPT ![s] = Append(@, [op |-> "connect", by |-> t,
                                                     data |-> <<>>, for |-> t])]
        /\ tasks' = [tasks EXCEPT ![t].pc = r.pc, ![t].ret = r.ret, ![t].frame = r.frame]
  /\ UNCHANGED <<wire, session, fn>>

\* task t calls send_commands(cmds, strip_command=sc, strip_prompt=sp, re_flags=fl)
TaskCallSendCommands(t, cmds, sc, sp, fl) ==
  /\ tasks[t].pc = "idle"
  /\ tasks[t].calls < MaxTaskCalls
  /\ LET r == enter_send_commands("api", cmds, PyNone, sc, sp, fl,
                                  streams[tasks[t].on].prompt_pattern, <<>>)
     IN tasks' = [tasks EXCEPT ![t].pc = r.pc, ![t].api = "send_commands",
                               ![t].calls = @ + 1, ![t].frame = r.frame,
                               ![t].ret = r.ret, ![t].seen = <<>>]
  /\ UNCHANGED <<streams, wire, oplog, session, fn>>

\* _send of task t: the transport's send returns, and the device emits reply
TaskIoSend(t, reply) ==
  /\ tasks[t].pc = "send"
  /\ LET s == tasks[t].on
         fr == tasks[t].frame
     IN /\ oplog' = [oplog EXCEPT ![s] =
                       Append(@, [op |-> "send", by |-> t,
                                  data |-> normalize_cmd(fr.cmd_list[fr.idx]), for |-> t])]
        /\ wire' = [wire EXCEPT ![s] = @ \o Emitted(reply, t)]
        /\ tasks' = [tasks EXCEPT ![t].pc = "read", ![t].frame = [fr EXCEPT !.rbuf = <<>>],
                                  ![t].seen = <<>>]
  /\ UNCHANGED <<streams, session, fn>>

\* _read_until of task t: the transport's read returns a chunk; the code runs
\* on to the next await, or to the end of the public method
TaskIoRead(t) ==
  /\ tasks[t].pc = "read"
  /\ wire[tasks[t].on] # <<>>
  /\ LET s == tasks[t].on
         fr == tasks[t].frame
         got == take(wire[s], t)
         out == accumulate(fr.rbuf, got.chunk.c)
         test == read_until_test(fr.pattern_list, out, fr.re_flags)
         cmd == fr.cmd_list[fr.idx]
         buf == sanitize(cmd, normalize_linefeeds(out), fr.strip_command, fr.strip_prompt)
         output == fr.output \o buf
         nxt == next_cmd(fr.cmd_list, fr.idx)
         done == [fr EXCEPT !.output = output, !.rbuf = out]
         seen == tasks[t].seen \o got.chunk.c
     IN /\ wire' = [wire EXCEPT ![s] = got.rest]
        /\ oplog' = [oplog EXCEPT ![s] = Append(@, [op |-> "read", by |-> t,
                                                     data |-> got.chunk.c,
                                                     for |-> got.chunk.for])]
        /\ CASE test = "continue" ->
                  /\ tasks' = [tasks EXCEPT ![t].frame = [fr EXCEPT !.rbuf = out],
                                            ![t].seen = seen]
                  /\ UNCHANGED streams
             [] test = "TypeError" ->
                  /\ tasks' = [tasks EXCEPT ![t].pc = "idle", ![t].seen = seen,
                                            ![t].frame = [fr EXCEPT !.rbuf = out],
                                            ![t].ret = Ret("TypeError", <<>>)]
                  /\ UNCHANGED streams
             [] test = "return" /\ nxt # 0 ->
                  /\ tasks' = [tasks EXCEPT ![t].pc = "send", ![t].seen = seen,
                                            ![t].frame = [done EXCEPT !.idx = nxt]]
                  /\ UNCHANGED streams
             [] test = "return" /\ nxt = 0 /\ fr.stage # "find_prompt" ->
                  /\ tasks' = [tasks EXCEPT ![t].pc = "idle", ![t].seen = seen,
                                            ![t].frame = done,
                                            ![t].ret = Ret("ok", return_value(fr.stage,
                                                                 fr.cbuf, output))]
                  /\ UNCHANGED streams
             [] test = "return" /\ nxt = 0 /\ fr.stage = "find_prompt" ->
                  LET raw_prompt == output
                      returned == set_prompt(streams[s].set_prompt_func, raw_prompt)
                      np == stored_pattern(streams[s].prompt_pattern, returned)
                      r == enter_send_commands("prep", streams[s].nopage_cmd, PyNone,
                                               TRUE, TRUE, {}, np, raw_prompt)
                  IN /\ streams' = store_pattern(streams, s, np)
                     /\ tasks' = [tasks EXCEPT ![t].pc = r.pc, ![t].seen = seen,
                                               ![t].frame = r.frame, ![t].ret = r.ret]
  /\ UNCHANGED <<session, fn>>

NextTasks ==
  \/ \E t \in DOMAIN tasks : TaskCallConnect(t)
  \/ \E t \in DOMAIN tasks : TaskIoConnect(t)
  \/ \E t \in DOMAIN tasks, cmds \in TaskCommands, opt \in TaskOptions :
       TaskCallSendCommands(t, cmds, opt[1], opt[2], opt[3])
  \/ \E t \in DOMAIN tasks, reply \in Replies : TaskIoSend(t, reply)
  \/ \E t \in DOMAIN tasks : TaskIoRead(t)

\* every transport call a task awaits returns, and every chunk on the wire is
\* delivered to a pending read
FairTransport ==
  /\ WF_vars(TaskIoConnect(1))
  /\ WF_vars(\E reply \in Replies : TaskIoSend(1, reply))
  /\ WF_vars(TaskIoRead(1))

SpecOne == InitOne /\ [][NextTasks]_vars /\ FairTransport

\* the steps of send_commands calls alone
NextSends ==
  \/ \E t \in DOMAIN tasks, cmds \in TaskCommands, opt \in TaskOptions :
       TaskCallSendCommands(t, cmds, opt[1], opt[2], opt[3])
  \/ \E t \in DOMAIN tasks, reply \in Replies : TaskIoSend(t, reply)
  \/ \E t \in DOMAIN tasks : TaskIoRead(t)

SpecShared == InitShared /\ [][NextSends]_vars

SpecTwo == InitTwo /\ [][NextTasks]_vars

(***************************************************************************)
(* Properties                                                              *)
(***************************************************************************)

\* some pattern of the list matches the text
AnyMatch(pattern_list, s, fl) ==
  \E i \in DOMAIN pattern_list :
    pattern_list[i].k # "int" /\ Search(pattern_list[i], s, fl)

Sends(log) == SelectSeq(log, LAMBDA e : e.op = "send")

\* C1: in a public send_commands call over n commands the transport sees the
\* sends in list order, each followed by one or more reads; the send of
\* command k+1 comes only after the read loop of command k has returned on a
\* match of a terminator pattern, no read of command k comes after it, and a
\* call that returns has made exactly n sends.
C1_SendReadOrder ==
  api = "send_commands" =>
    /\ \A i \in DOMAIN tlog :
         LET e == tlog[i]
         IN /\ e.op \in {"send", "read"}
            /\ e.k \in DOMAIN frame.cmd_list
            /\ e.op = "send" =>
                 /\ RStripLF(e.data) = RStripLF(frame.cmd_list[e.k])
                 /\ IF i = 1 THEN e.k = 1
                    ELSE /\ tlog[i - 1].op = "read"
                         /\ tlog[i - 1].ok
                         /\ e.k = tlog[i - 1].k + 1
            /\ e.op = "read" =>
                 /\ i > 1
                 /\ tlog[i - 1].ok
                 /\ tlog[i - 1].k = e.k
    /\ pc = "send" /\ frame.idx > 1 =>
         /\ last.k = frame.idx - 1
         /\ tlog[Len(tlog)] = Op("read", last.k, <<>>, TRUE)
         /\ AnyMatch(frame.pattern_list, last.resp, frame.re_flags)
    /\ pc = "idle" /\ ret.status = "ok" =>
         /\ Len(Sends(tlog)) = Len(frame.cmd_list)
         /\ frame.cmd_list # <<>> =>
              /\ last.k = Len(frame.cmd_list)
              /\ tlog[Len(tlog)] = Op("read", last.k, <<>>, TRUE)
              /\ AnyMatch(frame.pattern_list, last.resp, frame.re_flags)

\* a call over two commands has returned, one of them after several reads
C1_Witness ==
  /\ api = "send_commands"
  /\ pc = "idle"
  /\ ret.status = "ok"
  /\ Len(frame.cmd_list) = 2
  /\ Len(tlog) > 4

\* the pattern list the claim C2 gives for a patterns argument
ClaimedPatternList(patterns, cur) ==
  IF patterns.t = "none" THEN [err |-> "none", list |-> <<cur>>]
  ELSE IF patterns.t = "str" THEN [err |-> "none", list |-> <<patterns.v[1], cur>>]
  ELSE IF patterns.t = "list" THEN [err |-> "none", list |-> patterns.v \o <<cur>>]
  ELSE [err |-> "ValueError", list |-> <<>>]

\* C2: the pattern list of a send_commands call is [current] for no patterns,
\* [s, current] for a string s, L + [current] for a list L, and every other
\* type of argument fails with an invalid-argument error.
C2_EffectivePatternList ==
  api = "send_commands" =>
    LET c == ClaimedPatternList(patterns_arg, pattern_at_call)
    IN IF c.err # "none"
       THEN ret.status = c.err
       ELSE /\ ret.status # "ValueError"
            /\ frame.pattern_list = c.list
            /\ frame.pattern_list[Len(frame.pattern_list)] = pattern_at_call

\* the patterns argument is a string or a list of strings
IsStrOrListOfStr(patterns) ==
  \/ patterns.t = "str"
  \/ patterns.t = "list" /\ \A i \in DOMAIN patterns.v : patterns.v[i].k # "int"

\* C3: a send_commands call whose patterns argument is present but neither a
\* string nor a list of strings fails with an invalid-argument error, and the
\* call has made no transport send or read.
C3_BadPatternsFailBeforeIO ==
  /\ api = "send_commands"
  /\ patterns_arg.t # "none"
  /\ ~IsStrOrListOfStr(patterns_arg)
  => /\ tlog = <<>>
     /\ pc = "idle"
     /\ ret.status = "ValueError"

\* C4: over the lifetime of one DeviceStream the pattern becomes a learned
\* pattern exactly once and is never assigned again: no second connect runs
\* the bootstrap on top of it and send_commands leaves it alone.
C4_PatternLearnedOnce ==
  n_learn >= 1 => n_learn = 1 /\ prompt_pattern = learned.pattern

\* C5: with no pagination-disable command, session preparation makes no
\* transport call and raises nothing, adds the empty string to what connect
\* returns, and connect completes.
C5_NoNopageIsNoOp ==
  /\ api = "connect"
  /\ nopage_cmd.t = "none"
  /\ last.stage = "find_prompt"
  => /\ pc = "idle"
     /\ ret = Ret("ok", learned.raw)
     /\ Len(Sends(tlog)) = 1
     /\ tlog[Len(tlog)].op = "read"

\* the pattern the constructor builds from the delimiter list
BootstrapPattern == Alt(delimeter_list)

\* C6: a connect run calls the transport's connect first, then makes the
\* prompt-detection exchange (one send of a newline and its reads), then the
\* session-preparation exchange (one send of the pagination-disable command
\* and its reads); nothing is sent or read before the transport's connect has
\* completed; when that connect fails the error propagates, nothing is sent
\* or read and the pattern is left as it was (the bootstrap pattern, unless a
\* prompt detection ran before); and connect returns the output of prompt
\* detection followed by the output of session preparation.
C6_ConnectOrder ==
  api = "connect" =>
    /\ pc = "io_connect" <=> tlog = <<>>
    /\ tlog # <<>> => tlog[1].op = "connect"
    /\ \A i \in 2..Len(tlog) :
         /\ tlog[1].ok
         /\ tlog[i].op \in {"send", "read"}
         /\ tlog[i - 1].ok
         /\ tlog[i].op = "read" => tlog[i - 1].op \in {"send", "read"}
         /\ tlog[i].op = "send" => i = 2 \/ tlog[i - 1].op = "read"
    /\ Len(Sends(tlog)) <= 2
    /\ Len(Sends(tlog)) >= 1 => Sends(tlog)[1].data = <<LF>>
    /\ Len(Sends(tlog)) = 2 =>
         /\ nopage_cmd.t = "str"
         /\ RStripLF(Sends(tlog)[2].data) = RStripLF(nopage_cmd.v[1])
         /\ learned.current
         /\ prompt_pattern = learned.pattern
    /\ last.stage = "find_prompt" => learned.raw = normalize_linefeeds(last.resp)
    /\ tlog # <<>> /\ ~tlog[1].ok =>
         /\ Len(tlog) = 1
         /\ pc = "idle"
         /\ ret.status = "TransportError"
         /\ prompt_pattern = pattern_at_call
         /\ n_anchor = 0 => prompt_pattern = BootstrapPattern
    /\ pc = "idle" /\ ret.status = "ok" =>
         /\ Len(Sends(tlog)) = 2
         /\ last.stage = "prep"
         /\ ret.value = learned.raw \o last.buf

\* a connect has returned after both exchanges
C6_Witness ==
  /\ api = "connect"
  /\ pc = "idle"
  /\ ret.status = "ok"
  /\ Len(tlog) >= 6
  /\ last.buf # <<>>

\* C7: after disconnect has been called, a later connect or send_commands on
\* the same object makes no transport connect, send or read.
C7_DisconnectIsTerminal ==
  disconnected /\ api \in {"connect", "send_commands"} => tlog = <<>>

\* C8: a constructor call without the transport or without the prompt-setter
\* raises a configuration error whatever the other arguments are, leaves no
\* object, and no transport call is ever made.
C8_InitRejectsMissing ==
  pc # "new" /\ (~init_args.io \/ init_args.func = "none") =>
    /\ pc = "no_object"
    /\ ret.status = "ValueError"
    /\ calls = 0
    /\ tlog = <<>>

\* the constructor was given a transport, a pagination-disable command and
\* delimiters, but no prompt-setter
C8_Witness ==
  /\ pc = "no_object"
  /\ init_args.io
  /\ init_args.func = "none"
  /\ init_args.nopage.t = "str"
  /\ init_args.delims # <<>>

\* C9: once a prompt detection has completed the pattern is the value the
\* prompt-setter returned for the raw exchange, and a later send_commands
\* call without extra patterns ends each read loop only on a match of that
\* learned pattern.
C9_LearnedPatternUsed ==
  /\ learned.current => prompt_pattern = learned.pattern
  /\ api = "send_commands" /\ patterns_arg.t = "none" /\ learned.set =>
       /\ learned.current => frame.pattern_list = <<learned.pattern>>
       /\ last.k >= 1 => Search(learned.pattern, last.resp, frame.re_flags)

\* a send_commands call without extra patterns has returned after a prompt
\* detection that learned a pattern other than the bootstrap pattern
C9_Witness ==
  /\ api = "send_commands"
  /\ patterns_arg.t = "none"
  /\ learned.set
  /\ learned.pattern # BootstrapPattern
  /\ last.k >= 1
  /\ ret.status = "ok"

\* resp is the echoed command, a newline and one final line that matches pat,
\* with no backspace in it
IsEchoThenPrompt(cmd, resp, pat, fl) ==
  /\ \A i \in DOMAIN resp : resp[i] # BS
  /\ \E n \in 1..Len(resp) :
       LET line == SubSeq(resp, n + 1, Len(resp))
       IN /\ SubSeq(resp, 1, n) \in {cmd \o <<LF>>, RStripLF(cmd) \o <<LF>>}
          /\ \A i \in DOMAIN line : line[i] # LF
          /\ Search(pat, line, fl)

\* C10: with strip_command and strip_prompt enabled, a command whose response
\* is just its echo, a newline and a final prompt line matching the current
\* pattern contributes the empty string to what send_commands returns.
C10_EchoOnlyGivesEmpty ==
  /\ last.k >= 1
  /\ last.stage = frame.stage
  /\ frame.strip_command
  /\ frame.strip_prompt
  /\ IsEchoThenPrompt(last.cmd, last.resp, prompt_pattern, frame.re_flags)
  => /\ last.buf = <<>>
     /\ pc = "idle" /\ ret.status = "ok" /\ Len(frame.cmd_list) = 1 =>
          ret.value = frame.cbuf

\* a public send_commands call has returned for such a response
C10_Witness ==
  /\ api = "send_commands"
  /\ pc = "idle"
  /\ ret.status = "ok"
  /\ last.k >= 1
  /\ frame.strip_command
  /\ frame.strip_prompt
  /\ prompt_pattern # EmptyPattern
  /\ IsEchoThenPrompt(last.cmd, last.resp, prompt_pattern, frame.re_flags)

\* what the transport was given for command k of the running call
SentFor(k) ==
  LET s == SelectSeq(tlog, LAMBDA e : e.op = "send" /\ e.k = k)
  IN s[1].data

NoBackspace(s) == \A i \in DOMAIN s : s[i] # BS

\* C11: in send_commands with strip_command enabled, a response without a
\* backspace loses as many leading characters as the string written to the
\* transport for that command is long (the command and its single newline),
\* whatever newlines the caller put at the end of the command; a response
\* that begins with those characters loses exactly them.
C11_StripsSentLength ==
  /\ api = "send_commands"
  /\ last.k >= 1
  /\ frame.strip_command
  /\ ~frame.strip_prompt
  /\ NoBackspace(last.resp)
  => LET L == Len(SentFor(last.k))
         norm == normalize_linefeeds(last.resp)
     IN last.buf = SubSeq(norm, L + 1, Len(norm))

\* C13: a DeviceStream that was constructed never holds the empty pattern:
\* an empty delimiter list is rejected by the constructor, and the pattern
\* stays non-empty through prompt detection.
C13_PatternNeverEmpty ==
  /\ init_args.delims = <<>> => pc \in {"new", "no_object"}
  /\ pc \notin {"new", "no_object"} => prompt_pattern # EmptyPattern

\* _find_prompt is between its line 60 and its line 64
DetectionInProgress == pc \in {"send", "read"} /\ frame.stage = "find_prompt"

\* C18: the two-line anchored pattern is temporary: whenever no prompt
\* detection is in progress, also after a detection that a transport failure
\* aborted, the current pattern is the bootstrap pattern or a learned
\* pattern and never the anchored variant.
C18_AnchoredPatternIsTemporary ==
  pc \notin {"new", "no_object"} /\ ~DetectionInProgress =>
    /\ prompt_pattern.k # "anch"
    /\ \/ prompt_pattern = BootstrapPattern
       \/ learned.set /\ prompt_pattern = learned.pattern

\* C16: prompt detection makes exactly one transport send and its payload is
\* one newline; its reads end only on the two-line anchored variant of the
\* pattern that was current when the detection began (the bootstrap pattern,
\* unless a detection ran before on the object) under MULTILINE and DOTALL;
\* and set_prompt_func is handed the whole exchange, line endings
\* normalized, with neither the echoed command nor the last line removed.
C16_DetectionExchange ==
  api = "connect" =>
    /\ frame.stage = "find_prompt" =>
         /\ frame.cmd_list = << <<LF>> >>
         /\ frame.pattern_list = <<Anch(pattern_at_call)>>
         /\ n_anchor = 1 => frame.pattern_list = <<Anch(BootstrapPattern)>>
         /\ frame.re_flags = {"M", "S"}
         /\ ~frame.strip_command /\ ~frame.strip_prompt
         /\ pc = "send" => Sends(tlog) = <<>>
         /\ pc = "read" => Sends(tlog) = <<Op("send", 1, <<LF>>, TRUE)>>
         /\ pc = "idle" => Len(Sends(tlog)) = 1 /\ Sends(tlog)[1].data = <<LF>>
    /\ frame.stage = "prep" =>
         /\ Sends(tlog)[1] = Op("send", 1, <<LF>>, TRUE)
         /\ \A i \in 2..Len(Sends(tlog)) : Sends(tlog)[i].data # <<LF>>
         /\ learned.pattern = set_prompt(set_prompt_func, learned.raw)
         /\ last.stage = "find_prompt" =>
              /\ last.cmd = <<LF>>
              /\ last.buf = normalize_linefeeds(last.resp)
              /\ learned.raw = last.buf
              /\ Search(Anch(pattern_at_call), last.resp, {"M", "S"})

\* a first prompt detection has handed a two-line exchange, read in several
\* chunks, to set_prompt_func
C16_Witness ==
  /\ api = "connect"
  /\ n_anchor = 1
  /\ frame.stage = "prep"
  /\ last.stage = "find_prompt"
  /\ Len(tlog) >= 4
  /\ Len(learned.raw) = 3
  /\ learned.raw[2] = LF

\* one step of _read_until in which the transport's read delivered a chunk
C14_ReadStep ==
  /\ pc = "read"
  /\ tlog' # tlog
  /\ tlog'[Len(tlog')].ok
  /\ \A i \in DOMAIN frame.pattern_list : frame.pattern_list[i].k # "int"
  => \E chunk \in Chunks :
       LET out == frame.rbuf \o chunk
       IN IF AnyMatch(frame.pattern_list, out, frame.re_flags)
          THEN /\ pc' \in {"send", "idle"}
               /\ tlog' = Append(tlog, Op("read", frame.idx, <<>>, TRUE))
               /\ last'.k = frame.idx
               /\ last'.resp = out
               /\ last'.buf = sanitize(last'.cmd, normalize_linefeeds(out),
                                       frame.strip_command, frame.strip_prompt)
               /\ ret'.status \in {"pending", "ok", "TypeError"}
          ELSE /\ pc' = "read"
               /\ frame' = [frame EXCEPT !.rbuf = out]
               /\ ret' = ret
               /\ last' = last

\* C14: _read_until tests the accumulated buffer after every chunk: it goes
\* on reading while the chunks so far match no pattern of the list, and at
\* the first chunk after which they match one it returns, without another
\* read, what it has accumulated with the line endings normalized; what it
\* returns always matched a pattern before the normalization.
C14_ReadUntilReturnsAtFirstMatch == [][C14_ReadStep]_vars

\* a read loop has returned after two chunks a buffer whose line endings the
\* normalization changed
C14_Witness ==
  /\ api = "send_commands"
  /\ last.k >= 1
  /\ ~frame.strip_command
  /\ ~frame.strip_prompt
  /\ Len(tlog) >= 3
  /\ tlog[Len(tlog) - 1].op = "read"
  /\ last.buf # last.resp
  /\ last.buf = normalize_linefeeds(last.resp)

\* s holds the sequence q at position i
HasAt(s, q, i) == i + Len(q) - 1 <= Len(s) /\ SubSeq(s, i, i + Len(q) - 1) = q

LineEndVariants == { <<CR, CR, LF>>, <<CR, LF>>, <<LF, CR>> }

\* C12: _normalize_linefeeds is idempotent on every string over CR, LF and
\* ordinary characters; it maps each of CR CR LF, CR LF and LF CR to one LF;
\* and it returns a string that holds none of the three unchanged.
C12_NormalizeLinefeedsIdempotent ==
  fn.name = "_normalize_linefeeds" =>
    /\ fn.applied = 2 => fn.again = fn.res
    /\ fn.arg \in LineEndVariants => fn.res = <<LF>>
    /\ (\A q \in LineEndVariants : \A i \in DOMAIN fn.arg : ~HasAt(fn.arg, q, i))
         => fn.res = fn.arg

\* C17: the payload _send hands to the transport ends in exactly one newline:
\* it is the caller's command without its trailing newlines, followed by one
\* newline, for every command (the empty one and those ending in one or in
\* several newlines included); normalizing a payload again leaves it as it is.
C17_PayloadEndsInOneNewline ==
  fn.name = "_send" =>
    LET n == Len(fn.res)
    IN /\ n >= 1
       /\ fn.res[n] = LF
       /\ n >= 2 => fn.res[n - 1] # LF
       /\ n - 1 <= Len(fn.arg)
       /\ SubSeq(fn.res, 1, n - 1) = SubSeq(fn.arg, 1, n - 1)
       /\ \A i \in n..Len(fn.arg) : fn.arg[i] = LF
       /\ fn.applied = 2 => fn.again = fn.res

\* a command ending in two newlines has been sent, and its payload again
C17_Witness ==
  /\ fn.name = "_send"
  /\ fn.applied = 2
  /\ Len(fn.arg) >= 3
  /\ fn.arg[1] = "a"
  /\ fn.arg[Len(fn.arg)] = LF
  /\ fn.arg[Len(fn.arg) - 1] = LF
  /\ Len(fn.res) < Len(fn.arg)

\* the first n chunks on the wire w, joined
RECURSIVE Delivered(_, _)
Delivered(w, n) == IF n = 0 THEN <<>> ELSE Delivered(w, n - 1) \o w[n].c

\* the chunks task t's read loop has been given, or those together with some
\* of the chunks still to be delivered, match a pattern of its list
WillMatch(t) ==
  LET fr == tasks[t].frame
      w == wire[tasks[t].on]
  IN \E n \in 0..Len(w) :
       /\ n > 0 \/ tasks[t].seen # <<>>
       /\ AnyMatch(fr.pattern_list, tasks[t].seen \o Delivered(w, n), fr.re_flags)

InCall(t) == tasks[t].pc \in {"io_connect", "send", "read"}
Returned(t) == tasks[t].pc = "idle" /\ tasks[t].ret.status = "ok"
\* task t is in a read loop that no prefix of the device's chunks ends
Starved(t) == tasks[t].pc = "read" /\ ~WillMatch(t)

\* C15: when the transport goes on delivering the chunks it has and, for
\* each command, the chunks up to some point match a pattern, the call
\* returns; when the chunks of a command never match, the call neither
\* returns nor raises: it takes every chunk there is and stays in its read.
C15_ReadUntilTermination ==
  /\ InCall(1) ~> (Returned(1) \/ Starved(1))
  /\ [](Starved(1) => [](tasks[1].pc = "read" /\ tasks[1].ret = Pending))
  /\ Starved(1) ~> (tasks[1].pc = "read" /\ wire[1] = <<>>)

\* a call over two commands has returned, each read loop after two chunks
C15_Witness ==
  /\ DOMAIN tasks = {1}
  /\ Returned(1)
  /\ tasks[1].api = "send_commands"
  /\ Len(tasks[1].frame.cmd_list) = 2
  /\ Len(oplog[1]) = 6
  /\ Len(tasks[1].seen) = 2

\* a step of task t on the transport it shares
C19_Step(t) ==
  LET s == tasks[t].on
      head == wire[s][1]
  IN /\ \A u \in DOMAIN tasks \ {t} : tasks'[u] = tasks[u]
     /\ tasks[t].pc = "send" =>
          /\ tasks'[t].pc = "read"
          /\ Len(oplog'[s]) = Len(oplog[s]) + 1
          /\ oplog'[s][Len(oplog'[s])].op = "send"
          /\ oplog'[s][Len(oplog'[s])].by = t
     /\ tasks[t].pc = "read" =>
          /\ wire'[s] = Tail(wire[s])
          /\ oplog'[s] = Append(oplog[s], [op |-> "read", by |-> t, data |-> head.c,
                                           for |-> head.for])
          /\ tasks'[t].seen = tasks[t].seen \o head.c

\* C19: send_commands takes no lock.  With two calls in flight on one object
\* a step of one call neither waits for the other call nor changes it: its
\* send goes to the transport when it is reached, also between the other
\* call's send and match, and its read takes the chunk at the head of the
\* transport's stream, whichever call's command that chunk answers.
C19_NoLocking ==
  [][\A t \in DOMAIN tasks : tasks'[t] # tasks[t] => C19_Step(t)]_vars

\* call a has sent and not matched yet, call b has sent after it and has
\* read a chunk the device emitted for a's command
C19_Witness ==
  /\ DOMAIN tasks = {1, 2}
  /\ \E a, b \in {1, 2} :
       /\ a # b
       /\ tasks[a].on = tasks[b].on
       /\ tasks[a].pc = "read"
       /\ tasks[a].frame.idx = 1
       /\ \E i, j, k \in DOMAIN oplog[1] :
            /\ i < j /\ j < k
            /\ oplog[1][i].op = "send" /\ oplog[1][i].by = a
            /\ oplog[1][j].op = "send" /\ oplog[1][j].by = b
            /\ oplog[1][k].op = "read" /\ oplog[1][k].by = b /\ oplog[1][k].for = a

\* what belongs to object s: its attributes, its transport and its callers
View(s) ==
  [stream |-> streams[s], wire |-> wire[s], oplog |-> oplog[s],
   tasks |-> [t \in {u \in DOMAIN tasks : tasks[u].on = s} |-> tasks[t]]]

\* C20: two DeviceStream objects on two transports share no state: in every
\* interleaving of their connect and send_commands steps, a step of a call
\* on one object leaves the other object's pattern, the operations its
\* transport has seen and is to deliver, and the locals and results of its
\* calls as they are, so that each object goes through the states it goes
\* through when it runs alone.
C20_SessionsIndependent ==
  [][\A t \in DOMAIN tasks : tasks'[t] # tasks[t] =>
       \A s \in DOMAIN streams \ {tasks[t].on} : View(s)' = View(s)]_vars

\* both objects are in a connect at once: one has learned its pattern and
\* reads for its session preparation, the other is still detecting
C20_Witness ==
  /\ DOMAIN streams = {1, 2}
  /\ \E a, b \in {1, 2} :
       /\ tasks[a].on # tasks[b].on
       /\ tasks[a].pc = "read"
       /\ tasks[a].frame.stage = "prep"
       /\ tasks[a].seen # <<>>
       /\ streams[tasks[a].on].prompt_pattern.k = "alt"
       /\ tasks[b].pc = "read"
       /\ tasks[b].frame.stage = "find_prompt"
       /\ tasks[b].seen # <<>>
       /\ streams[tasks[b].on].prompt_pattern.k = "anch"

====
